---- MODULE Spec2Model ----
(***************************************************************************)
(* PDR discovery and ingest (Discover / Parse classes and selector) of the *)
(* ingest library, together with the S3 existence check of common/aws.js.  *)
(* The protocol mixins (list, download, upload) and parsePdr are not part  *)
(* of the sources at hand; they are modelled from their contracts.         *)
(***************************************************************************)
EXTENDS Integers, Sequences, FiniteSets, TLC

(* ------------------------------ bounds --------------------------------- *)
MaxPasses == 2
MaxIngests == 2
MaxConnLimit == 2
MaxCalls == 3
MaxPages == 2
MaxPageItems == 2
MaxOps == 5
MaxRetries == 3
MaxItems == 3
MaxLimit == 2
MaxMessages == 2

(* ----------------------------- constants ------------------------------- *)
Discs == {"d1", "d2"}
Stack == "stk"
Bucket == "bkt"
DefaultFolder == "pdrs"
Folders == {DefaultFolder}
Collection == [name |-> "col", provider_path |-> "/in"]

\* characters of the file names the provider serves
Chars(name) ==
  CASE name = "a.PDR" -> <<"a", ".", "P", "D", "R">>
    [] name = "b.PDR" -> <<"b", ".", "P", "D", "R">>
    [] name = "n.txt" -> <<"n", ".", "t", "x", "t">>
    [] name = "PDR.x" -> <<"P", "D", "R", ".", "x">>
    [] OTHER -> <<>>

\* the files at the provider path, in the order list() reports them
RemoteFiles ==
  << [name |-> "a.PDR", path |-> "/in"],
     [name |-> "n.txt", path |-> "/in"],
     [name |-> "b.PDR", path |-> "/in"],
     [name |-> "PDR.x", path |-> "/in"] >>

\* a second provider, with a collection of its own, that serves a record of
\* the same name
OtherProvider == [id |-> "p2", globalConnectionLimit |-> 1, protocol |-> "ftp",
                  host |-> "h2", port |-> 21]
OtherCollection == [name |-> "col2", provider_path |-> "/out"]
OtherRecord == [name |-> "a.PDR", path |-> "/out"]

\* what an earlier deployment run may have left in the bucket
Archived == {<<Bucket, <<Stack, DefaultFolder, "a.PDR">>>>}

\* error codes an S3 request can fail with besides NotFound
S3Failures == {"Forbidden"}

VARIABLES
  provider,   \* the provider record the clients were built with
  s3,         \* objects in durable storage: set of <<bucket, key>>
  folder,     \* folder[d]: the folder Discover client d was built with
  dpc,        \* dpc[d]: position of discover() of client d
  pdrs,       \* pdrs[d]: the candidates of the running pass (after the suffix filter)
  chk,        \* chk[d][i]: the promise pdrIsNew(pdrs[d][i])
  seen,       \* seen[d][i]: whether the object was in storage when check i was answered
  outcome,    \* outcome[d]: how the promise of discover() settled
  handed,     \* handed[d]: how many records of outcome[d].value were given to ingest
  passes,     \* number of discover() calls made so far
  runs,       \* the ingest runs: sequence of Parse clients with their position
  open,       \* provider connections currently open
  after,      \* after[d]: the ingest runs that had archived their record when the pass of d began
  disk,       \* paths of the files on the local disk
  remote,     \* the files at the provider path, in the order list() reports them
  sel,        \* the selector/constructor exercise (see SelSpec)
  memo,       \* the memoized AWS service accessors (see MemoSpec)
  q,          \* an S3ListObjectsV2Queue or DynamoDbSearchQueue and its backend (see QueueSpec)
  rt,         \* a getS3Object call and its attempts (see RetrySpec)
  th,         \* a call of a function wrapped by retryOnThrottlingException (see ThrottleSpec)
  ls,         \* a listS3ObjectsV2 or DynamoDb.scan call and its backend (see ListSpec)
  api,        \* a request handled by handle() of the API test utilities (see ApiSpec)
  ev          \* an event handled by cw-sf-event-to-db-records (see EventSpec)

pdrVars == <<provider, s3, folder, dpc, pdrs, chk, seen, outcome, handed, passes,
             runs, open, after, disk, remote>>
moreVars == <<th, ls, api, ev>>
awsVars == <<memo, q, rt, moreVars>>
vars == <<pdrVars, sel, awsVars>>

(* --------------------------- JS value helpers -------------------------- *)
JsFalse == [false |-> TRUE]
Truthy(v) == v # JsFalse

Pending == [st |-> "pending"]
Fulfilled(v) == [st |-> "fulfilled", value |-> v]
Rejected(c) == [st |-> "rejected", code |-> c]

\* String.prototype.endsWith on character sequences
endsWith(s, suffix) ==
  /\ Len(s) >= Len(suffix)
  /\ SubSeq(s, Len(s) - Len(suffix) + 1, Len(s)) = suffix

\* path.join of plain segments: a path is the sequence of its segments
path_join(a, b) == a \o b

(* ------------------------------ aws.js --------------------------------- *)
\* S3.headObject: fails with `fail` when the request itself fails, with
\* NotFound when there is no such object
headObject(store, bucket, key, fail) ==
  IF fail # "none" THEN Rejected(fail)
  ELSE IF <<bucket, key>> \in store THEN Fulfilled("head")
  ELSE Rejected("NotFound")

\* variant: the check leaves an object under the key it looked up
storeAfterHead_touch(store, bucket, key) == store \cup {<<bucket, key>>}

\* S3.headObject is a read: the objects it leaves in the store
storeAfterHead(store, bucket, key) == store

\* variant: every failure of headObject is read as "no such object"
s3ObjectExists_anyErrorIsAbsent(store, bucket, key, fail) ==
  LET h == headObject(store, bucket, key, fail) IN
  IF h.st = "fulfilled" THEN Fulfilled(TRUE) ELSE Fulfilled(FALSE)

s3ObjectExists(store, bucket, key, fail) ==
  LET h == headObject(store, bucket, key, fail) IN
  IF h.st = "fulfilled" THEN Fulfilled(TRUE)
  ELSE IF h.code = "NotFound" THEN Fulfilled(FALSE)
  ELSE h

(* ------------------------------ Discover ------------------------------- *)
\* variant: the folder is left out of the key
pdrKey_noFolder(stack, fld, pdr) == path_join(<<stack>>, <<pdr.name>>)

\* the key pdrIsNew looks up
pdrKey(stack, fld, pdr) == path_join(path_join(<<stack>>, <<fld>>), <<pdr.name>>)

\* variant: the key looked up also holds the path the provider serves the record at
pdrIsNew_keyWithPath(store, bucket, stack, fld, pdr, fail) ==
  LET e == s3ObjectExists(store, bucket,
                          path_join(<<pdr.path>>, pdrKey(stack, fld, pdr)), fail) IN
  IF e.st = "fulfilled"
    THEN Fulfilled(IF e.value THEN JsFalse ELSE pdr)
    ELSE e

\* pdrIsNew(pdr): false when the key exists, the record when it does not
pdrIsNew(store, bucket, stack, fld, pdr, fail) ==
  LET e == s3ObjectExists(store, bucket, pdrKey(stack, fld, pdr), fail) IN
  IF e.st = "fulfilled"
    THEN Fulfilled(IF e.value THEN JsFalse ELSE pdr)
    ELSE e

\* variant: the suffix filter accepts a name that holds PDR anywhere
filterPdrs_contains(files) ==
  SelectSeq(files, LAMBDA f :
    \E k \in 1..Len(Chars(f.name)) :
      k + 2 <= Len(Chars(f.name))
      /\ SubSeq(Chars(f.name), k, k + 2) = <<"P", "D", "R">>)

\* files.filter((file) => file.name.endsWith('.PDR'))
filterPdrs(files) ==
  SelectSeq(files, LAMBDA f : endsWith(Chars(f.name), <<".", "P", "D", "R">>))

\* Promise.all over the checks followed by _pdrs.filter(p => p):
\* rejects with the first rejection, resolves once every check is fulfilled
RECURSIVE values(_)
values(ps) ==
  IF ps = <<>> THEN <<>> ELSE <<Head(ps).value>> \o values(Tail(ps))

\* variant: the records are collected as the checks are walked from the
\* last one started to the first
findNewPdrs_lastFirst(checks, justRejected) ==
  IF justRejected # "none" THEN [kind |-> "rejected", code |-> justRejected]
  ELSE IF \A i \in DOMAIN checks : checks[i].st = "fulfilled"
    THEN [kind |-> "resolved",
          value |-> SelectSeq([i \in 1..Len(checks) |->
                                 checks[Len(checks) + 1 - i].value], Truthy)]
  ELSE [kind |-> "pending"]

findNewPdrs(checks, justRejected) ==
  IF justRejected # "none" THEN [kind |-> "rejected", code |-> justRejected]
  ELSE IF \A i \in DOMAIN checks : checks[i].st = "fulfilled"
    THEN [kind |-> "resolved", value |-> SelectSeq(values(checks), Truthy)]
  ELSE [kind |-> "pending"]

NoOutcome == [kind |-> "pending"]

(* ------------------- protocol mixins and parsePdr ---------------------- *)
NoFile == [path |-> <<>>, content |-> "none"]
NoError == [kind |-> "none"]
NoCall == [bucket |-> "none"]
NoGranules == [granulesCount |-> 0, filesCount |-> 0, granules |-> <<>>, errors |-> <<>>]

\* list(): the entries at the provider path; the provider is only read
list(files) == files

remoteAfterList(files) == files

\* what a PDR file on the provider may contain
Contents == {"ok", "bad"}

\* download(remotePath, name): fetches the file into a local path
download(remotePath, name, content, fail) ==
  IF fail \/ content = "none" THEN [st |-> "rejected", err |-> [kind |-> "ConnectionError"]]
  ELSE Fulfilled([path |-> <<"tmp", name>>, content |-> content])

\* the local disk after the download settled
diskAfterDownload(files, dl) ==
  IF dl.st = "fulfilled" THEN files \cup {dl.value.path} ELSE files

\* the documents a PDR file may hold: whether the document-level structure
\* is sound, and its granule groups in order, each well formed or malformed
Document(content) ==
  CASE content = "ok"  -> [sound |-> TRUE,  groups |-> <<"good">>]
    [] content = "bad" -> [sound |-> FALSE, groups |-> <<>>]
    [] content = "g-m" -> [sound |-> TRUE,  groups |-> <<"good", "malformed">>]
    [] content = "m-g" -> [sound |-> TRUE,  groups |-> <<"malformed", "good">>]
    [] content = "m"   -> [sound |-> TRUE,  groups |-> <<"malformed">>]
    [] content = "g-g-m-g-g" ->
         [sound |-> TRUE, groups |-> <<"good", "good", "malformed", "good", "good">>]
    [] content = "g-g-unterminated" ->
         [sound |-> FALSE, groups |-> <<"good", "good">>]
    [] OTHER -> [sound |-> FALSE, groups |-> <<>>]

ParseContents == {"ok", "bad", "g-m", "m-g", "m", "g-g-m-g-g", "g-g-unterminated"}

\* the positions of the groups of one kind, in document order
RECURSIVE groupsOf(_, _, _)
groupsOf(groups, kind, i) ==
  IF i > Len(groups) THEN <<>>
  ELSE IF groups[i] = kind THEN <<i>> \o groupsOf(groups, kind, i + 1)
  ELSE groupsOf(groups, kind, i + 1)

FilesPerGroup == 2

\* variant: the first malformed group aborts the parse of the document
parsePdr_abortOnGroupError(file, collection, pdrName) ==
  LET doc == Document(file.content)
      good == groupsOf(doc.groups, "good", 1)
      malformed == groupsOf(doc.groups, "malformed", 1) IN
  IF doc.sound /\ malformed = <<>>
    THEN Fulfilled([granulesCount |-> Len(good), filesCount |-> FilesPerGroup * Len(good),
                    granules |-> good, errors |-> <<>>])
    ELSE [st |-> "rejected", err |-> [kind |-> "PDRParsingError", pdrName |-> pdrName]]

\* parsePdr(pdrFilePath, collection, pdrName): a malformed group is recorded
\* as an error entry and the other groups are parsed; a document whose
\* structure cannot be recovered raises a failure tagged with the record name
parsePdr(file, collection, pdrName) ==
  LET doc == Document(file.content)
      good == groupsOf(doc.groups, "good", 1)
      malformed == groupsOf(doc.groups, "malformed", 1) IN
  IF doc.sound
    THEN Fulfilled([granulesCount |-> Len(good), filesCount |-> FilesPerGroup * Len(good),
                    granules |-> good,
                    errors |-> [k \in DOMAIN malformed |->
                                  [kind |-> "GroupParseError", group |-> malformed[k]]]])
    ELSE [st |-> "rejected", err |-> [kind |-> "PDRParsingError", pdrName |-> pdrName]]

\* upload(bucket, keyPrefix, name, localPath): one atomic put of the object
uploadKey(call) == path_join(call.keyPrefix, <<call.name>>)

upload(store, call, fail) ==
  IF fail # "none" THEN store ELSE store \cup {<<call.bucket, uploadKey(call)>>}

(* -------------------------------- Parse -------------------------------- *)
\* new Parse(pdr, stack, bucket, collection, provider, folder)
newParse(pdr, stack, bucket, collection, prov, fld) ==
  [pdr |-> pdr, stack |-> stack, bucket |-> bucket, folder |-> fld,
   pc |-> "DISCOVERED", local |-> NoFile, granules |-> NoGranules,
   err |-> NoError, call |-> NoCall]

\* Parse.parse: hands the local file and the record name to parsePdr
parse(run, file) == parsePdr(file, Collection, run.pdr.name)

\* variant: upload is started together with the download
ingestCall_uploadEarly(run) ==
  [run EXCEPT !.pc = "DOWNLOADING",
              !.call = [bucket |-> run.bucket,
                        keyPrefix |-> path_join(<<run.stack>>, <<run.folder>>),
                        name |-> run.pdr.name,
                        file |-> run.local]]

\* ingest(), up to the first await: download is called
ingestCall(run) == [run EXCEPT !.pc = "DOWNLOADING"]

\* ingest() resumes with the settled download
ingestAfterDownload(run, dl) ==
  IF dl.st = "fulfilled"
    THEN [run EXCEPT !.pc = "PARSING", !.local = dl.value]
    ELSE [run EXCEPT !.pc = "DOWNLOAD_FAILED", !.err = dl.err]

\* variant: the upload is started whatever the parse gave
ingestAfterParse_uploadAlways(run, parsed) ==
  [run EXCEPT !.pc = "UPLOADING",
              !.granules = IF parsed.st = "fulfilled" THEN parsed.value ELSE NoGranules,
              !.call = [bucket |-> run.bucket,
                        keyPrefix |-> path_join(<<run.stack>>, <<run.folder>>),
                        name |-> run.pdr.name,
                        file |-> run.local]]

\* ingest() resumes with the settled parse: upload only if the parse was successful
ingestAfterParse(run, parsed) ==
  IF parsed.st = "fulfilled"
    THEN [run EXCEPT !.pc = "UPLOADING", !.granules = parsed.value,
                     !.call = [bucket |-> run.bucket,
                               keyPrefix |-> path_join(<<run.stack>>, <<run.folder>>),
                               name |-> run.pdr.name,
                               file |-> run.local]]
    ELSE [run EXCEPT !.pc = "PARSE_FAILED", !.err = parsed.err]

\* variant: a failed upload is swallowed
ingestAfterUpload_swallow(run, fail) == [run EXCEPT !.pc = "PARSED_AND_ARCHIVED"]

\* ingest() resumes with the settled upload and returns the granules
ingestAfterUpload(run, fail) ==
  IF fail = "none"
    THEN [run EXCEPT !.pc = "PARSED_AND_ARCHIVED"]
    ELSE [run EXCEPT !.pc = "UPLOAD_FAILED",
                     !.err = [kind |-> "StorageError", code |-> fail]]

(* ------------------------ aws.js service objects ----------------------- *)
\* the accessors exercised, with the API version each passes to awsClient
Services == {"s3", "sqs"}
ApiVersion(svc) == IF svc = "s3" THEN "2006-03-01" ELSE "2012-11-05"

Undefined == [undefined |-> TRUE]
NoInstance == [id |-> 0]

\* what a caller may pass to an accessor
ClientOptions == {Undefined, [region |-> "us-east-1"], [region |-> "eu-west-1"]}

\* Object.assign(target, source): an undefined source is skipped
Object_assign(target, source) ==
  IF "undefined" \in DOMAIN source THEN target
  ELSE [k \in DOMAIN target \cup DOMAIN source |->
          IF k \in DOMAIN source THEN source[k] ELSE target[k]]

\* new Service(options), or testAwsClient(Service, options) in test mode:
\* a service object of its own identity
newService(svc, test, options, id) ==
  [id |-> id, service |-> svc, test |-> test, config |-> options]

\* the function awsClient hands to memoize
awsClient(svc, test, o, id) ==
  newService(svc, test, Object_assign([apiVersion |-> ApiVersion(svc)], o), id)

\* variant: a call whose options differ from the cached object's makes a new object
memoize_perOptions(cached, made) ==
  IF cached = NoInstance \/ cached.config # made.config THEN made ELSE cached

\* memoize: if (!memo) memo = fn(options); return memo
memoize(cached, made) == IF cached = NoInstance THEN made ELSE cached

(* --------------------------- aws.js queues ----------------------------- *)
NullItem == [null |-> TRUE]
QueueKinds == {"S3ListObjectsV2Queue", "DynamoDbSearchQueue"}

\* what the service holds: its answer pages in order, the items numbered in
\* listing order; a page may be empty (a filtered scan, a delimited listing)
RECURSIVE itemsBefore(_, _)
itemsBefore(sizes, p) == IF p = 1 THEN 0 ELSE sizes[p - 1] + itemsBefore(sizes, p - 1)

PagesOf(sizes) ==
  [p \in DOMAIN sizes |-> [k \in 1..sizes[p] |-> [Key |-> itemsBefore(sizes, p) + k]]]

Backends ==
  {PagesOf(sizes) : sizes \in UNION {[1..n -> 0..MaxPageItems] : n \in 1..MaxPages}}

\* s3.listObjectsV2(params): the page the continuation token names
listObjectsV2(pages, params) ==
  LET p == IF "ContinuationToken" \in DOMAIN params THEN params.ContinuationToken ELSE 1 IN
  [Contents |-> pages[p], IsTruncated |-> p < Len(pages), NextContinuationToken |-> p + 1]

\* dynamodbDocClient.scan(params): the page after the exclusive start key;
\* LastEvaluatedKey is present while more pages follow
scan(pages, params) ==
  LET p == IF "ExclusiveStartKey" \in DOMAIN params THEN params.ExclusiveStartKey + 1 ELSE 1 IN
  IF p < Len(pages) THEN [Items |-> pages[p], LastEvaluatedKey |-> p]
  ELSE [Items |-> pages[p]]

\* new S3ListObjectsV2Queue(params) / new DynamoDbSearchQueue(params)
newQueue(kind) ==
  [kind |-> kind, items |-> <<>>,
   params |-> IF kind = "S3ListObjectsV2Queue" THEN [Bucket |-> Bucket]
              ELSE [TableName |-> "t"]]

\* S3ListObjectsV2Queue.fetchItems
S3fetchItems(pages, qu) ==
  LET response == listObjectsV2(pages, qu.params) IN
  IF response.IsTruncated
    THEN [qu EXCEPT !.items = response.Contents,
                    !.params = Object_assign(@, [ContinuationToken |->
                                                   response.NextContinuationToken])]
    ELSE [qu EXCEPT !.items = Append(response.Contents, NullItem)]

\* variant: one request per fetch, an empty page is taken as it comes
DynamoFetchItems_noSkip(pages, qu) ==
  LET response == scan(pages, qu.params)
      more == "LastEvaluatedKey" \in DOMAIN response IN
  [qu EXCEPT !.params = IF more
                          THEN Object_assign(@, [ExclusiveStartKey |->
                                                   response.LastEvaluatedKey])
                          ELSE @,
             !.items = IF more THEN response.Items
                       ELSE Append(response.Items, NullItem)]

\* DynamoDbSearchQueue.fetchItems: the do-while loop over empty pages
RECURSIVE DynamoFetchItems(_, _)
DynamoFetchItems(pages, qu) ==
  LET response == scan(pages, qu.params)
      more == "LastEvaluatedKey" \in DOMAIN response
      params == IF more
                  THEN Object_assign(qu.params, [ExclusiveStartKey |->
                                                   response.LastEvaluatedKey])
                  ELSE qu.params IN
  IF Len(response.Items) = 0 /\ more
    THEN DynamoFetchItems(pages, [qu EXCEPT !.params = params])
    ELSE [qu EXCEPT !.params = params,
                    !.items = IF more THEN response.Items
                              ELSE Append(response.Items, NullItem)]

fetchItems(pages, qu) ==
  IF qu.kind = "S3ListObjectsV2Queue" THEN S3fetchItems(pages, qu)
  ELSE DynamoFetchItems(pages, qu)

\* shift(): fetch if the buffer is empty, then Array.shift (undefined on an
\* empty array)
shift(pages, qu) ==
  LET f == IF Len(qu.items) = 0 THEN fetchItems(pages, qu) ELSE qu IN
  IF Len(f.items) = 0 THEN [queue |-> f, value |-> Undefined]
  ELSE [queue |-> [f EXCEPT !.items = Tail(@)], value |-> Head(f.items)]

\* variant: peek takes the item out of the buffer
peek_removes(pages, qu) == shift(pages, qu)

\* peek(): fetch if the buffer is empty, then items[0]
peek(pages, qu) ==
  LET f == IF Len(qu.items) = 0 THEN fetchItems(pages, qu) ELSE qu IN
  [queue |-> f, value |-> IF Len(f.items) = 0 THEN Undefined ELSE f.items[1]]

(* --------------------------- aws.js getS3Object ------------------------ *)
\* how one s3.getObject call may end
GetObjectOutcomes == {"ok", "NoSuchKey", "AccessDenied", "InternalError", "SlowDown"}
ObjectKeys == {"k1", "k2"}

\* retryOptions as a caller passes them: left out, or {retries: n}
RetryOptions == {Undefined} \cup {[retries |-> n] : n \in 0..MaxRetries}

\* the default of the parameter: retryOptions = { retries: 0 }
retryOptionsOrDefault(retryOptions) ==
  IF retryOptions = Undefined THEN [retries |-> 0] ELSE retryOptions

\* s3().getObject({ Bucket, Key }).promise()
getObject(bucket, key, ending) ==
  IF ending = "ok" THEN Fulfilled([Bucket |-> bucket, Key |-> key])
  ELSE Rejected(ending)

\* variant: every error of getObject is thrown as it is
attempt_rethrowAll(bucket, key, ending) ==
  LET got == getObject(bucket, key, ending) IN
  IF got.st = "fulfilled" THEN [kind |-> "return", value |-> got.value]
  ELSE [kind |-> "throw", err |-> [code |-> got.code]]

\* the function handed to pRetry: NoSuchKey is thrown as it is, any other
\* error is wrapped in pRetry.AbortError
attempt(bucket, key, ending) ==
  LET got == getObject(bucket, key, ending) IN
  IF got.st = "fulfilled" THEN [kind |-> "return", value |-> got.value]
  ELSE IF got.code = "NoSuchKey" THEN [kind |-> "throw", err |-> [code |-> got.code]]
  ELSE [kind |-> "abort", err |-> [code |-> got.code]]

\* pRetry after an attempt: resolves with a returned value, rejects with the
\* error of an AbortError, and runs the function again after another error
\* while fewer than retries + 1 attempts were made
pRetry(op, res) ==
  LET made == Len(op.attempts) + 1 IN
  CASE res.kind = "return" -> [op EXCEPT !.pc = "resolved", !.value = res.value]
    [] res.kind = "abort" -> [op EXCEPT !.pc = "rejected", !.err = res.err]
    [] OTHER -> IF made < op.options.retries + 1 THEN op
                ELSE [op EXCEPT !.pc = "rejected", !.err = res.err]

(* --------------------- aws.js retryOnThrottlingException --------------- *)
\* how one call of the wrapped function may end
FnEndings == {"ok", "ThrottlingException", "ValidationException",
              "ResourceNotFoundException", "NoSuchKey"}
FnArgs == {"x", "y"}

\* options as the wrapper is configured: {retries: n}
ThrottleOptions == {[retries |-> n] : n \in 0..MaxRetries}

\* fn(...args): the wrapped function, which returns a promise
fn(args, ending) ==
  IF ending = "ok" THEN Fulfilled([args |-> args]) ELSE Rejected(ending)

\* variant: every error counts as a throttling error
isThrottlingException_any(err) == TRUE

\* isThrottlingException
isThrottlingException(err) == err.code = "ThrottlingException"

\* retryIfThrottlingException: a throttling error is thrown as it is, any
\* other error is wrapped in pRetry.AbortError
retryIfThrottlingException(err) ==
  IF isThrottlingException(err) THEN [kind |-> "throw", err |-> err]
  ELSE [kind |-> "abort", err |-> err]

\* () => fn(...args).catch(retryIfThrottlingException)
throttledAttempt(args, ending) ==
  LET got == fn(args, ending) IN
  IF got.st = "fulfilled" THEN [kind |-> "return", value |-> got.value]
  ELSE retryIfThrottlingException([code |-> got.code])

(* ------------------ testUtils.js: authorization and handle ------------- *)
\* String.toLowerCase over the header names of the exercise
toLowerCase(key) ==
  IF key \in {"Authorization", "authorization", "AUTHORIZATION"} THEN "authorization"
  ELSE IF key \in {"Accept", "accept"} THEN "accept"
  ELSE key

\* findCaseInsensitiveKey(obj, keyArg): the first key that matches, or
\* undefined (here the empty string, which is falsy as well)
NoKey == ""
findCaseInsensitiveKey(obj, keyArg) ==
  LET found == {k \in DOMAIN obj : toLowerCase(k) = toLowerCase(keyArg)} IN
  IF found = {} THEN NoKey ELSE CHOOSE k \in found : TRUE

\* value.trim().split(/\s+/) of a header value given as its runs of
\* non-blank characters and its blanks
trimSplit(value) ==
  LET words == SelectSeq(value, LAMBDA piece : piece # " ") IN
  IF words = <<>> THEN <<"">> ELSE words

\* the tokens of the exercise and who they were issued to
Tokens == {"tok-alice", "tok-bob", "tok-expired", "tok-forged"}
UserNames == {"alice", "bob"}

\* verifyJwtToken(jwtToken): returns, or throws TokenExpiredError or
\* JsonWebTokenError
verifyJwtToken(jwtToken) ==
  CASE jwtToken = "tok-expired" -> "TokenExpiredError"
    [] jwtToken \in {"tok-alice", "tok-bob"} -> "ok"
    [] OTHER -> "JsonWebTokenError"

\* jwtDecode(jwtToken): the payload of the token
jwtDecode(jwtToken) ==
  IF jwtToken = "tok-bob" THEN [username |-> "bob"] ELSE [username |-> "alice"]

\* new AuthorizationFailureResponse(params)
AuthorizationFailureResponse(params) ==
  Object_assign([type |-> "AuthorizationFailureResponse"], params)

InternalServerError == [type |-> "InternalServerError"]
NoFailure == [null |-> TRUE]

\* the requests of the exercise: no Authorization header, or one under a
\* name of any case and with a value of any shape
HeaderNames == {"Authorization", "authorization", "AUTHORIZATION"}
HeaderValues ==
  {<<"Bearer", " ", t>> : t \in Tokens}
    \cup {<<" ", "Bearer", " ", " ", "tok-alice", " ">>, <<"Basic", " ", "tok-alice">>,
          <<"bearer", " ", "tok-alice">>, <<"Bearer">>, <<" ">>}
Requests ==
  {[headers |-> [k \in {"Accept"} |-> <<"json">>]]}
    \cup {[headers |-> [k \in {name} |-> v]] : name \in HeaderNames, v \in HeaderValues}

\* how userModel.get may end for a user name
LookupErrors == {"ProvisionedThroughputExceededException"}
userGet(users, userName, fail) ==
  IF fail # "none" THEN Rejected(fail)
  ELSE IF userName \in users THEN Fulfilled([userName |-> userName])
  ELSE Rejected("RecordDoesNotExist")

\* how new User({ tableName }) may end
UserModels == {"constructed", "TypeError"}

\* getAuthorizationFailureResponse up to its await: either it returns a
\* failure response, or it calls userModel.get for the decoded user name
\* (an exception of the User constructor rejects its promise)
authBeforeLookup(request, userModel) ==
  LET authorizationKey == findCaseInsensitiveKey(request.headers, "Authorization") IN
  IF authorizationKey = NoKey
    THEN [kind |-> "return",
          value |-> AuthorizationFailureResponse([message |-> "Authorization header missing"])]
  ELSE
    LET parts == trimSplit(request.headers[authorizationKey])
        scheme == parts[1] IN
    IF scheme # "Bearer"
      THEN [kind |-> "return",
            value |-> AuthorizationFailureResponse(
                        [error |-> "invalid_request",
                         message |-> "Authorization scheme must be Bearer"])]
    ELSE IF Len(parts) < 2
      THEN [kind |-> "return",
            value |-> AuthorizationFailureResponse(
                        [error |-> "invalid_request", message |-> "Missing token"])]
    ELSE
      LET jwtToken == parts[2]
          verified == verifyJwtToken(jwtToken) IN
      IF verified = "TokenExpiredError"
        THEN [kind |-> "return",
              value |-> AuthorizationFailureResponse(
                          [message |-> "Access token has expired", statusCode |-> 403])]
      ELSE IF verified = "JsonWebTokenError"
        THEN [kind |-> "return",
              value |-> AuthorizationFailureResponse(
                          [message |-> "Invalid access token", statusCode |-> 403])]
      ELSE IF userModel # "constructed"
        THEN [kind |-> "throw", err |-> [name |-> userModel]]
      ELSE [kind |-> "await", userName |-> jwtDecode(jwtToken).username]

\* getAuthorizationFailureResponse after userModel.get settled: only
\* RecordDoesNotExist is turned into a failure response
authAfterLookup(got) ==
  IF got.st = "rejected" /\ got.code = "RecordDoesNotExist"
    THEN AuthorizationFailureResponse([message |-> "User not authorized", statusCode |-> 403])
    ELSE NoFailure

\* how the endpoint function may end: it answers through cb, or it rejects
FuncEndings == {"responds", "rejects"}
LambdaProxyResponse == [type |-> "LambdaProxyResponse"]

\* variant: the endpoint function is started whatever the check gave
handleThen_always(a) == [a EXCEPT !.pc = "func", !.invoked = @ + 1]

\* handle(): the then-callback of the authorization check
handleThen(a) ==
  IF a.check.value # NoFailure
    THEN [a EXCEPT !.pc = "done", !.succeeded = Append(@, a.check.value)]
    ELSE [a EXCEPT !.pc = "func", !.invoked = @ + 1]

\* handle(): the catch-callback, for the check and for the endpoint function
handleCatch(a) ==
  [a EXCEPT !.pc = "done", !.succeeded = Append(@, InternalServerError)]

\* handle(event, context, authCheck, func) up to its return
handle(a) ==
  IF ~a.hasSucceed THEN [a EXCEPT !.pc = "threw"]
  ELSE IF a.authCheck
    THEN LET r == authBeforeLookup(a.request, a.userModel) IN
         CASE r.kind = "return" -> [a EXCEPT !.pc = "checked", !.check = Fulfilled(r.value)]
           [] r.kind = "throw" -> [a EXCEPT !.pc = "checked", !.check = Rejected(r.err.name)]
           [] OTHER -> [a EXCEPT !.pc = "lookup", !.userName = r.userName]
  ELSE [a EXCEPT !.pc = "func", !.invoked = @ + 1]

(* ----------------- aws.js listS3ObjectsV2 and DynamoDb.scan ------------ *)
\* how a request to the service may fail
RequestErrors == {"InternalError"}
NoResponse == [none |-> TRUE]

\* listS3ObjectsV2: the first request, with the params as passed
listS3ObjectsV2Call(l) ==
  LET listObjectsResponse == listObjectsV2(l.pages, l.params) IN
  [l EXCEPT !.pc = "looping", !.response = listObjectsResponse,
            !.requests = @ + 1,
            !.discoveredObjects = listObjectsResponse.Contents]

\* variant: the page fetched in the loop replaces what was found so far
listS3ObjectsV2More_replace(l) ==
  LET listObjectsResponse ==
        listObjectsV2(l.pages,
                      Object_assign(l.params, [ContinuationToken |->
                                                 l.response.NextContinuationToken])) IN
  [l EXCEPT !.response = listObjectsResponse, !.requests = @ + 1,
            !.discoveredObjects = listObjectsResponse.Contents]

\* listS3ObjectsV2: one round of the while loop
listS3ObjectsV2More(l) ==
  LET listObjectsResponse ==
        listObjectsV2(l.pages,
                      Object_assign(l.params, [ContinuationToken |->
                                                 l.response.NextContinuationToken])) IN
  [l EXCEPT !.response = listObjectsResponse, !.requests = @ + 1,
            !.discoveredObjects = @ \o listObjectsResponse.Contents]

\* a table of n items scanned with a per-request limit: full pages, then the
\* rest (an empty last page when the limit divides n)
TablePages(n, limit) ==
  PagesOf([p \in 1..((n \div limit) + 1) |->
             IF p <= n \div limit THEN limit ELSE n % limit])

\* variant: the scan stops after its first request
DynamoDbScanMore_stop(l) == [l EXCEPT !.response = [Items |-> <<>>]]

\* DynamoDb.scan: one more request, from the LastEvaluatedKey of the last one
DynamoDbScanMore(l) ==
  LET response ==
        scan(l.pages, Object_assign(l.params, [ExclusiveStartKey |->
                                                 l.response.LastEvaluatedKey])) IN
  [l EXCEPT !.response = response, !.requests = @ + 1,
            !.discoveredObjects = @ \o response.Items]

\* DynamoDb.scan: the first request
DynamoDbScanCall(l) ==
  LET response == scan(l.pages, l.params) IN
  [l EXCEPT !.pc = "looping", !.response = response, !.requests = @ + 1,
            !.discoveredObjects = response.Items]

\* whether the last response says that more pages follow
moreToFetch(l) ==
  IF l.fnName = "listS3ObjectsV2" THEN l.response.IsTruncated
  ELSE "LastEvaluatedKey" \in DOMAIN l.response

(* ------------------- class table and constructors ---------------------- *)
Null == "null"

\* lodash.get(object, key, default)
get(obj, key, dflt) == IF key \in DOMAIN obj THEN obj[key] ELSE dflt

\* the classes of the module: the two abstract bases and their six mixes
Classes ==
  [Discover |-> [base |-> "Discover", mixin |-> "none"],
   Parse |-> [base |-> "Parse", mixin |-> "none"],
   FtpDiscover |-> [base |-> "Discover", mixin |-> "ftp"],
   HttpDiscover |-> [base |-> "Discover", mixin |-> "http"],
   SftpDiscover |-> [base |-> "Discover", mixin |-> "sftp"],
   FtpParse |-> [base |-> "Parse", mixin |-> "ftp"],
   HttpParse |-> [base |-> "Parse", mixin |-> "http"],
   SftpParse |-> [base |-> "Parse", mixin |-> "sftp"]]

Thrown(kind, message) == [st |-> "rejected", err |-> [kind |-> kind, message |-> message]]

\* new <cls>(stack, bucket, collection, provider, folder = 'pdrs') for a
\* class whose base is Discover
DiscoverConstructor(cls, args) ==
  IF cls = "Discover"
    THEN Thrown("TypeError", <<"Can not construct abstract class.">>)
    ELSE Fulfilled(
      [class |-> cls,
       stack |-> args.stack,
       bucket |-> args.bucket,
       folder |-> get(args, "folder", DefaultFolder),
       port |-> get(args.provider, "port", 21),
       host |-> get(args.provider, "host", Null),
       path |-> IF get(args.collection, "provider_path", "") # ""
                  THEN args.collection.provider_path ELSE "/",
       username |-> get(args.provider, "username", Null),
       password |-> get(args.provider, "password", Null)])

\* variant: the abstract class is constructed like its variants
ParseConstructor_noGuard(cls, args) ==
  Fulfilled(
    [class |-> cls,
     pdr |-> args.pdr,
     stack |-> args.stack,
     bucket |-> args.bucket,
     folder |-> get(args, "folder", DefaultFolder),
     port |-> get(args.provider, "port", 21),
     host |-> get(args.provider, "host", Null),
     username |-> get(args.provider, "username", Null),
     password |-> get(args.provider, "password", Null)])

\* new <cls>(pdr, stack, bucket, collection, provider, folder = 'pdrs') for a
\* class whose base is Parse
ParseConstructor(cls, args) ==
  IF cls = "Parse"
    THEN Thrown("TypeError", <<"Can not construct abstract class.">>)
    ELSE Fulfilled(
      [class |-> cls,
       pdr |-> args.pdr,
       stack |-> args.stack,
       bucket |-> args.bucket,
       folder |-> get(args, "folder", DefaultFolder),
       port |-> get(args.provider, "port", 21),
       host |-> get(args.provider, "host", Null),
       username |-> get(args.provider, "username", Null),
       password |-> get(args.provider, "password", Null)])

construct(cls, args) ==
  IF Classes[cls].base = "Discover"
    THEN DiscoverConstructor(cls, args)
    ELSE ParseConstructor(cls, args)

(* ------------------- cw-sf-event-to-db-records.js ---------------------- *)
\* the three writes of a Cumulus message, in the order the handler starts them
Writes == {"execution", "granules", "pdr"}

\* the SQS messages of the exercise: the execution event under Body or under
\* body, or a body that is not JSON
SqsMessages == {[Body |-> "event"], [body |-> "event"], [Body |-> "not json"]}

\* JSON.parse(get(message, 'Body', get(message, 'body', '{}')))
parseBody(message) ==
  LET text == get(message, "Body", get(message, "body", "{}")) IN
  IF text = "not json" THEN Rejected("SyntaxError") ELSE Fulfilled(text)

\* variant: the error of the write is thrown on after it was logged
saveToDb_rethrow(failed) ==
  IF failed THEN [promise |-> "rejected", logged |-> TRUE]
  ELSE [promise |-> "fulfilled", logged |-> FALSE]

\* saveExecutionToDb / saveGranulesToDb / savePdrToDb once the write settled:
\* an error of the write is caught and logged
saveToDb(failed) ==
  IF failed THEN [promise |-> "fulfilled", logged |-> TRUE]
  ELSE [promise |-> "fulfilled", logged |-> FALSE]

\* how Promise.all over promises settles: rejected with the first
\* rejection, fulfilled when every promise is
Promise_all(states) ==
  IF "rejected" \in states THEN "rejected"
  ELSE IF states \subseteq {"fulfilled"} THEN "fulfilled"
  ELSE "pending"

\* the callback of sqsMessages.map, up to its first await
messageStart(message) ==
  IF parseBody(message).st = "rejected"
    THEN [message |-> message, stage |-> "rejected", obtained |-> FALSE,
          write |-> [w \in Writes |-> "none"], save |-> [w \in Writes |-> "none"],
          logged |-> {}]
    ELSE [message |-> message, stage |-> "getting", obtained |-> FALSE,
          write |-> [w \in Writes |-> "none"], save |-> [w \in Writes |-> "none"],
          logged |-> {}]

\* the callback resumes with the Cumulus message: the three saves are started
messageObtained(m) ==
  [m EXCEPT !.stage = "pending", !.obtained = TRUE,
            !.write = [w \in Writes |-> "pending"],
            !.save = [w \in Writes |-> "pending"]]

\* one write settles, its save function returns, and the inner Promise.all
\* may settle the callback
messageWritten(m, w, failed) ==
  LET saved == saveToDb(failed)
      saves == [m.save EXCEPT ![w] = saved.promise]
      stage == IF m.stage = "pending"
                 THEN Promise_all({saves[x] : x \in Writes}) ELSE m.stage IN
  [m EXCEPT !.write[w] = IF failed THEN "failed" ELSE "stored",
            !.save = saves,
            !.logged = IF saved.logged THEN @ \cup {w} ELSE @,
            !.stage = stage]

\* the promise the handler returns: Promise.all over the callbacks
handlerPromise(was, msgs) ==
  IF was # "pending" THEN was
  ELSE Promise_all({msgs[i].stage : i \in DOMAIN msgs})

(* ------------------------------ selector ------------------------------- *)
\* variant: the sftp case of discover falls into the ftp case
selector_sftpAsFtp(type, protocol) ==
  IF type = "discover" THEN
    CASE protocol = "http" -> Fulfilled("HttpDiscover")
      [] protocol \in {"ftp", "sftp"} -> Fulfilled("FtpDiscover")
      [] OTHER -> Thrown("Error", <<"Protocol", protocol, "is not supported.">>)
  ELSE IF type = "parse" THEN
    CASE protocol = "http" -> Fulfilled("HttpParse")
      [] protocol = "ftp" -> Fulfilled("FtpParse")
      [] protocol = "sftp" -> Fulfilled("SftpParse")
      [] OTHER -> Thrown("Error", <<"Protocol", protocol, "is not supported.">>)
  ELSE Thrown("Error", <<type, "is not supported">>)

selector(type, protocol) ==
  IF type = "discover" THEN
    CASE protocol = "http" -> Fulfilled("HttpDiscover")
      [] protocol = "ftp" -> Fulfilled("FtpDiscover")
      [] protocol = "sftp" -> Fulfilled("SftpDiscover")
      [] OTHER -> Thrown("Error", <<"Protocol", protocol, "is not supported.">>)
  ELSE IF type = "parse" THEN
    CASE protocol = "http" -> Fulfilled("HttpParse")
      [] protocol = "ftp" -> Fulfilled("FtpParse")
      [] protocol = "sftp" -> Fulfilled("SftpParse")
      [] OTHER -> Thrown("Error", <<"Protocol", protocol, "is not supported.">>)
  ELSE Thrown("Error", <<type, "is not supported">>)

\* the inputs of the selector exercise
SelTypes == {"discover", "parse", "granule"}
SelProtocols == {"http", "ftp", "sftp", "s3", "HTTP"}
SelProviders ==
  {[id |-> "p"], [id |-> "p", host |-> "h"], [id |-> "p", port |-> 80],
   [id |-> "p", host |-> "h", port |-> 80, username |-> "u", password |-> "w"]}
SelCollections ==
  {[name |-> "col"], [name |-> "col", provider_path |-> ""],
   [name |-> "col", provider_path |-> "/in"]}
SelArgs ==
  LET base == {[stack |-> Stack, bucket |-> Bucket, collection |-> c,
                provider |-> p, pdr |-> RemoteFiles[1]] :
                 c \in SelCollections, p \in SelProviders}
  IN base \cup {[stack |-> a.stack, bucket |-> a.bucket, collection |-> a.collection,
                 provider |-> a.provider, pdr |-> a.pdr, folder |-> "alt"] : a \in base}

NoClient == [class |-> "none"]
NoResult == [st |-> "pending"]

(* -------------------------- connection pool ---------------------------- *)
\* variant: a connection is opened without looking at the limit
connectionAvailable_always(n, prov) == TRUE

connectionAvailable(n, prov) == n < prov.globalConnectionLimit

(* ------------------------------ actions -------------------------------- *)
\* discover() is called: list() opens a provider connection
DiscoverCall(d) ==
  /\ dpc[d] \in {"idle", "resolved", "rejected"}
  /\ passes < MaxPasses
  /\ connectionAvailable(open, provider)
  /\ open' = open + 1
  /\ passes' = passes + 1
  /\ dpc' = [dpc EXCEPT ![d] = "listing"]
  /\ pdrs' = [pdrs EXCEPT ![d] = <<>>]
  /\ chk' = [chk EXCEPT ![d] = <<>>]
  /\ seen' = [seen EXCEPT ![d] = <<>>]
  /\ outcome' = [outcome EXCEPT ![d] = NoOutcome]
  /\ handed' = [handed EXCEPT ![d] = 0]
  /\ after' = [after EXCEPT ![d] =
                 {r \in DOMAIN runs : runs[r].pc = "PARSED_AND_ARCHIVED"}]
  /\ UNCHANGED <<provider, s3, folder, runs, disk, remote, sel, awsVars>>

\* list() answers: the suffix filter runs and every pdrIsNew is started
ListDone(d) ==
  /\ dpc[d] = "listing"
  /\ open' = open - 1
  /\ remote' = remoteAfterList(remote)
  /\ LET cands == filterPdrs(list(remote))
         checks == [i \in DOMAIN cands |-> Pending]
         out == findNewPdrs(checks, "none")
     IN /\ pdrs' = [pdrs EXCEPT ![d] = cands]
        /\ chk' = [chk EXCEPT ![d] = checks]
        /\ seen' = [seen EXCEPT ![d] = [i \in DOMAIN cands |-> FALSE]]
        /\ outcome' = [outcome EXCEPT ![d] = out]
        /\ dpc' = [dpc EXCEPT ![d] =
                     IF out.kind = "pending" THEN "checking" ELSE out.kind]
  /\ UNCHANGED <<provider, s3, folder, handed, passes, runs, after, disk, sel, awsVars>>

\* list() fails: discover() rejects
ListFail(d) ==
  /\ dpc[d] = "listing"
  /\ open' = open - 1
  /\ dpc' = [dpc EXCEPT ![d] = "rejected"]
  /\ outcome' = [outcome EXCEPT ![d] = [kind |-> "rejected", code |-> "ConnectionError"]]
  /\ UNCHANGED <<provider, s3, folder, pdrs, chk, seen, handed, passes, runs, after, disk, remote, sel, awsVars>>

\* the existence check of candidate i is answered; once discover() has
\* rejected, the answers of the checks still in flight are dropped with it
CheckDone(d, i, fail) ==
  /\ dpc[d] = "checking"
  /\ i \in DOMAIN chk[d]
  /\ chk[d][i].st = "pending"
  /\ LET p == pdrIsNew(s3, Bucket, Stack, folder[d], pdrs[d][i], fail)
         checks == [chk[d] EXCEPT ![i] = p]
         out == findNewPdrs(checks, IF p.st = "rejected" THEN p.code ELSE "none")
     IN /\ chk' = [chk EXCEPT ![d] = checks]
        /\ seen' = [seen EXCEPT ![d][i] = (<<Bucket, <<Stack, folder[d], pdrs[d][i].name>>>> \in s3)]
        /\ IF out.kind # "pending"
             THEN /\ dpc' = [dpc EXCEPT ![d] = out.kind]
                  /\ outcome' = [outcome EXCEPT ![d] = out]
             ELSE UNCHANGED <<dpc, outcome>>
  /\ s3' = storeAfterHead(s3, Bucket, pdrKey(Stack, folder[d], pdrs[d][i]))
  /\ UNCHANGED <<provider, folder, pdrs, handed, passes, runs, open, after, disk, remote, sel, awsVars>>

\* the caller takes the next record of the result of discover() and builds
\* the Parse client for it
Admit(d, k) ==
  /\ dpc[d] = "resolved"
  /\ k \in DOMAIN outcome[d].value
  /\ k = handed[d] + 1
  /\ Len(runs) < MaxIngests
  /\ handed' = [handed EXCEPT ![d] = k]
  /\ runs' = Append(runs, newParse(outcome[d].value[k], Stack, Bucket,
                                   Collection, provider, folder[d]))
  /\ UNCHANGED <<provider, s3, folder, dpc, pdrs, chk, seen, outcome, passes, open, after, disk, remote, sel, awsVars>>

\* ingest() is called: download opens a provider connection
IngestCall(r) ==
  /\ runs[r].pc = "DISCOVERED"
  /\ connectionAvailable(open, provider)
  /\ open' = open + 1
  /\ runs' = [runs EXCEPT ![r] = ingestCall(@)]
  /\ UNCHANGED <<provider, s3, folder, dpc, pdrs, chk, seen, outcome, handed, passes, after, disk, remote, sel, awsVars>>

\* the download settles
DownloadDone(r, content, fail) ==
  /\ runs[r].pc = "DOWNLOADING"
  /\ open' = open - 1
  /\ LET dl == download(runs[r].pdr.path, runs[r].pdr.name, content, fail) IN
       /\ runs' = [runs EXCEPT ![r] = ingestAfterDownload(@, dl)]
       /\ disk' = diskAfterDownload(disk, dl)
  /\ UNCHANGED <<provider, s3, folder, dpc, pdrs, chk, seen, outcome, handed, passes, after, remote, sel, awsVars>>

\* the local file is parsed
ParseDone(r) ==
  /\ runs[r].pc = "PARSING"
  /\ runs' = [runs EXCEPT ![r] = ingestAfterParse(@, parse(@, @.local))]
  /\ UNCHANGED <<provider, s3, folder, dpc, pdrs, chk, seen, outcome, handed, passes, open, after, disk, remote, sel, awsVars>>

\* the upload settles
UploadDone(r, fail) ==
  /\ runs[r].pc = "UPLOADING"
  /\ s3' = upload(s3, runs[r].call, fail)
  /\ runs' = [runs EXCEPT ![r] = ingestAfterUpload(@, fail)]
  /\ UNCHANGED <<provider, folder, dpc, pdrs, chk, seen, outcome, handed, passes, open, after, disk, remote, sel, awsVars>>

\* the caller asks selector for the class of its type and protocol
Select ==
  /\ sel.pc = "start"
  /\ LET res == selector(sel.type, sel.protocol) IN
       sel' = [sel EXCEPT !.pc = IF res.st = "fulfilled" THEN "selected" ELSE "threw",
                          !.via = "selector",
                          !.ctor = res]
  /\ UNCHANGED <<provider, s3, folder, dpc, pdrs, chk, seen, outcome, handed,
                 passes, runs, open, after, disk, remote, awsVars>>

\* the caller constructs the client with the class selector returned
Construct ==
  /\ sel.pc = "selected"
  /\ LET res == construct(sel.ctor.value, sel.args) IN
       sel' = [sel EXCEPT !.pc = IF res.st = "fulfilled" THEN "constructed" ELSE "failed",
                          !.news = @ + 1,
                          !.client = IF res.st = "fulfilled" THEN res.value ELSE NoClient,
                          !.result = res]
  /\ UNCHANGED <<provider, s3, folder, dpc, pdrs, chk, seen, outcome, handed,
                 passes, runs, open, after, disk, remote, awsVars>>

\* a caller constructs one of the exported or base classes directly
ConstructDirect(cls) ==
  /\ sel.pc = "start"
  /\ LET res == construct(cls, sel.args) IN
       sel' = [sel EXCEPT !.pc = IF res.st = "fulfilled" THEN "constructed" ELSE "failed",
                          !.via = cls,
                          !.news = @ + 1,
                          !.client = IF res.st = "fulfilled" THEN res.value ELSE NoClient,
                          !.result = res]
  /\ UNCHANGED <<provider, s3, folder, dpc, pdrs, chk, seen, outcome, handed,
                 passes, runs, open, after, disk, remote, awsVars>>

\* the constructed client is put to use (discover() or ingest() is called)
Use ==
  /\ sel.pc = "constructed"
  /\ sel' = [sel EXCEPT !.pc = "used"]
  /\ UNCHANGED <<provider, s3, folder, dpc, pdrs, chk, seen, outcome, handed,
                 passes, runs, open, after, disk, remote, awsVars>>

\* the parts of the state a specification leaves at rest
SelQuiet == sel = [pc |-> "off"]
MoreQuiet ==
  /\ th = [pc |-> "off"]
  /\ ls = [pc |-> "off"]
  /\ api = [pc |-> "off"]
  /\ ev = [pc |-> "off"]

AwsQuiet ==
  /\ memo = [pc |-> "off"]
  /\ q = [pc |-> "off"]
  /\ rt = [pc |-> "off"]
  /\ MoreQuiet

PdrQuiet ==
  /\ provider = [id |-> "p", globalConnectionLimit |-> 1, protocol |-> "http",
                 host |-> "h", port |-> 80]
  /\ s3 = {}
  /\ folder = [d \in Discs |-> DefaultFolder]
  /\ dpc = [d \in Discs |-> "idle"]
  /\ pdrs = [d \in Discs |-> <<>>]
  /\ chk = [d \in Discs |-> <<>>]
  /\ seen = [d \in Discs |-> <<>>]
  /\ outcome = [d \in Discs |-> NoOutcome]
  /\ handed = [d \in Discs |-> 0]
  /\ passes = 0
  /\ runs = <<>>
  /\ open = 0
  /\ after = [d \in Discs |-> {}]
  /\ disk = {}
  /\ remote = RemoteFiles

Init ==
  /\ provider \in [id : {"p"}, globalConnectionLimit : 1..MaxConnLimit,
                  protocol : {"http"}, host : {"h"}, port : {80}]
  /\ s3 \in {{}, Archived}
  /\ folder \in [Discs -> Folders]
  /\ dpc = [d \in Discs |-> "idle"]
  /\ pdrs = [d \in Discs |-> <<>>]
  /\ chk = [d \in Discs |-> <<>>]
  /\ seen = [d \in Discs |-> <<>>]
  /\ outcome = [d \in Discs |-> NoOutcome]
  /\ handed = [d \in Discs |-> 0]
  /\ passes = 0
  /\ runs = <<>>
  /\ open = 0
  /\ after = [d \in Discs |-> {}]
  /\ disk = {}
  /\ remote = RemoteFiles
  /\ SelQuiet
  /\ AwsQuiet

Next ==
  \/ \E d \in Discs : DiscoverCall(d)
  \/ \E d \in Discs : ListDone(d)
  \/ \E d \in Discs : ListFail(d)
  \/ \E d \in Discs, i \in 1..Len(RemoteFiles), f \in S3Failures \cup {"none"} :
       CheckDone(d, i, f)
  \/ \E d \in Discs, k \in 1..Len(RemoteFiles) : Admit(d, k)
  \/ \E r \in DOMAIN runs : IngestCall(r)
  \/ \E r \in DOMAIN runs, c \in Contents : DownloadDone(r, c, FALSE)
  \/ \E r \in DOMAIN runs : DownloadDone(r, "none", TRUE)
  \/ \E r \in DOMAIN runs : ParseDone(r)
  \/ \E r \in DOMAIN runs, f \in S3Failures \cup {"none"} : UploadDone(r, f)

Spec == Init /\ [][Next]_vars

\* ingest() of two records, over every document of ParseContents
ParseInit ==
  /\ provider \in [id : {"p"}, globalConnectionLimit : 1..MaxConnLimit,
                  protocol : {"http"}, host : {"h"}, port : {80}]
  /\ s3 = {}
  /\ folder = [d \in Discs |-> DefaultFolder]
  /\ dpc = [d \in Discs |-> "idle"]
  /\ pdrs = [d \in Discs |-> <<>>]
  /\ chk = [d \in Discs |-> <<>>]
  /\ seen = [d \in Discs |-> <<>>]
  /\ outcome = [d \in Discs |-> NoOutcome]
  /\ handed = [d \in Discs |-> 0]
  /\ passes = 0
  /\ runs = <<newParse(RemoteFiles[1], Stack, Bucket, Collection, provider, DefaultFolder),
              newParse(RemoteFiles[3], Stack, Bucket, Collection, provider, DefaultFolder)>>
  /\ open = 0
  /\ after = [d \in Discs |-> {}]
  /\ disk = {}
  /\ remote = RemoteFiles
  /\ SelQuiet
  /\ AwsQuiet

ParseNext ==
  \/ \E r \in DOMAIN runs : IngestCall(r)
  \/ \E r \in DOMAIN runs, c \in ParseContents : DownloadDone(r, c, FALSE)
  \/ \E r \in DOMAIN runs : DownloadDone(r, "none", TRUE)
  \/ \E r \in DOMAIN runs : ParseDone(r)
  \/ \E r \in DOMAIN runs, f \in S3Failures \cup {"none"} : UploadDone(r, f)

ParseSpec == ParseInit /\ [][ParseNext]_vars

\* the ingest() of the second provider's record, run to its successful end
OtherIngest ==
  LET built == newParse(OtherRecord, Stack, Bucket, OtherCollection, OtherProvider,
                        DefaultFolder)
      dl == download(OtherRecord.path, OtherRecord.name, "ok", FALSE)
      downloaded == ingestAfterDownload(ingestCall(built), dl)
      parsed == ingestAfterParse(downloaded, parse(downloaded, downloaded.local))
  IN [run |-> ingestAfterUpload(parsed, "none"),
      store |-> upload({}, parsed.call, "none"),
      files |-> diskAfterDownload({}, dl)]

\* the second provider's record was ingested into the same stack, bucket and
\* folder; the clients of the first provider start discovering after it
TwoProvInit ==
  /\ provider = [id |-> "p", globalConnectionLimit |-> MaxConnLimit, protocol |-> "http",
                 host |-> "h", port |-> 80]
  /\ s3 = OtherIngest.store
  /\ folder = [d \in Discs |-> DefaultFolder]
  /\ dpc = [d \in Discs |-> "idle"]
  /\ pdrs = [d \in Discs |-> <<>>]
  /\ chk = [d \in Discs |-> <<>>]
  /\ seen = [d \in Discs |-> <<>>]
  /\ outcome = [d \in Discs |-> NoOutcome]
  /\ handed = [d \in Discs |-> 0]
  /\ passes = 0
  /\ runs = <<OtherIngest.run>>
  /\ open = 0
  /\ after = [d \in Discs |-> {}]
  /\ disk = OtherIngest.files
  /\ remote = RemoteFiles
  /\ SelQuiet
  /\ AwsQuiet

TwoProvSpec == TwoProvInit /\ [][Next]_vars

\* an accessor of aws.js is called with options
ServiceCall(svc, o) ==
  /\ memo.pc = "on"
  /\ Len(memo.log) < MaxCalls
  /\ LET cached == memo.slot[svc]
         got == memoize(cached, awsClient(svc, memo.test, o, memo.made + 1)) IN
       memo' = [memo EXCEPT !.slot[svc] = got,
                            !.made = IF got.id = memo.made + 1 THEN @ + 1 ELSE @,
                            !.created[svc] = IF got.id = memo.made + 1 THEN @ + 1 ELSE @,
                            !.log = Append(@, [service |-> svc, options |-> o, value |-> got])]
  /\ UNCHANGED <<pdrVars, sel, q, rt, moreVars>>

\* the module is loaded, in test mode or not, and no accessor was called yet
MemoInit ==
  /\ PdrQuiet
  /\ SelQuiet
  /\ q = [pc |-> "off"]
  /\ rt = [pc |-> "off"]
  /\ MoreQuiet
  /\ \E test \in BOOLEAN :
       memo = [pc |-> "on", test |-> test,
               slot |-> [svc \in Services |-> NoInstance],
               created |-> [svc \in Services |-> 0],
               made |-> 0, log |-> <<>>]

MemoNext == \E svc \in Services, o \in ClientOptions : ServiceCall(svc, o)

MemoSpec == MemoInit /\ [][MemoNext]_vars

\* a caller awaits shift() on the queue
Shift ==
  /\ q.pc = "on"
  /\ Len(q.ops) < MaxOps
  /\ LET r == shift(q.pages, q.queue) IN
       q' = [q EXCEPT !.queue = r.queue,
                      !.ops = Append(@, [op |-> "shift", value |-> r.value])]
  /\ UNCHANGED <<pdrVars, sel, memo, rt, moreVars>>

\* a caller awaits peek() on the queue
Peek ==
  /\ q.pc = "on"
  /\ Len(q.ops) < MaxOps
  /\ LET r == peek(q.pages, q.queue) IN
       q' = [q EXCEPT !.queue = r.queue,
                      !.ops = Append(@, [op |-> "peek", value |-> r.value])]
  /\ UNCHANGED <<pdrVars, sel, memo, rt, moreVars>>

\* a queue of either class was constructed over a listing or a table
QueueInit ==
  /\ PdrQuiet
  /\ SelQuiet
  /\ memo = [pc |-> "off"]
  /\ rt = [pc |-> "off"]
  /\ MoreQuiet
  /\ \E kind \in QueueKinds, pages \in Backends :
       q = [pc |-> "on", pages |-> pages, queue |-> newQueue(kind), ops |-> <<>>]

QueueNext == Shift \/ Peek

QueueSpec == QueueInit /\ [][QueueNext]_vars

\* one attempt of getS3Object settles
GetObjectAttempt(ending) ==
  /\ rt.pc = "running"
  /\ LET res == attempt(rt.Bucket, rt.Key, ending) IN
       rt' = [pRetry(rt, res) EXCEPT !.attempts = Append(@, ending)]
  /\ UNCHANGED <<pdrVars, sel, memo, q, moreVars>>

\* getS3Object(Bucket, Key, retryOptions) was called
RetryInit ==
  /\ PdrQuiet
  /\ SelQuiet
  /\ memo = [pc |-> "off"]
  /\ q = [pc |-> "off"]
  /\ MoreQuiet
  /\ \E key \in ObjectKeys, o \in RetryOptions :
       rt = [pc |-> "running", Bucket |-> Bucket, Key |-> key, given |-> o,
             options |-> retryOptionsOrDefault(o), attempts |-> <<>>,
             value |-> Undefined, err |-> NoError]

RetryNext == \E ending \in GetObjectOutcomes : GetObjectAttempt(ending)

RetrySpec == RetryInit /\ [][RetryNext]_vars

\* one attempt of the wrapped function settles
ThrottledAttempt(ending) ==
  /\ th.pc = "running"
  /\ LET res == throttledAttempt(th.args, ending) IN
       th' = [pRetry(th, res) EXCEPT !.attempts = Append(@, ending)]
  /\ UNCHANGED <<pdrVars, sel, memo, q, rt, ls, api, ev>>

\* retryOnThrottlingException(fn, options)(...args) was called
ThrottleInit ==
  /\ PdrQuiet
  /\ SelQuiet
  /\ memo = [pc |-> "off"]
  /\ q = [pc |-> "off"]
  /\ rt = [pc |-> "off"]
  /\ ls = [pc |-> "off"]
  /\ api = [pc |-> "off"]
  /\ ev = [pc |-> "off"]
  /\ \E args \in FnArgs, o \in ThrottleOptions :
       th = [pc |-> "running", args |-> args, options |-> o, attempts |-> <<>>,
             value |-> Undefined, err |-> NoError]

ThrottleNext == \E ending \in FnEndings : ThrottledAttempt(ending)

ThrottleSpec == ThrottleInit /\ [][ThrottleNext]_vars

\* handle() is called for the request
HandleCall ==
  /\ api.pc = "new"
  /\ api' = handle(api)
  /\ UNCHANGED <<pdrVars, sel, memo, q, rt, th, ls, ev>>

\* userModel.get settles and getAuthorizationFailureResponse returns
LookupDone(fail) ==
  /\ api.pc = "lookup"
  /\ LET got == userGet(api.users, api.userName, fail) IN
       api' = [api EXCEPT !.pc = "checked", !.lookup = got,
                          !.check = Fulfilled(authAfterLookup(got))]
  /\ UNCHANGED <<pdrVars, sel, memo, q, rt, th, ls, ev>>

\* the promise of the check has settled: its then- or catch-callback runs
CheckSettled ==
  /\ api.pc = "checked"
  /\ api' = IF api.check.st = "fulfilled" THEN handleThen(api) ELSE handleCatch(api)
  /\ UNCHANGED <<pdrVars, sel, memo, q, rt, th, ls, ev>>

\* the endpoint function ends: it answered through cb (resp calls
\* context.succeed), or its promise rejects, which handle() catches only
\* when the call went through the authorization check
FuncDone(ending) ==
  /\ api.pc = "func"
  /\ api' = IF ending = "responds"
              THEN [api EXCEPT !.pc = "done", !.func = ending,
                               !.succeeded = Append(@, LambdaProxyResponse)]
            ELSE IF api.authCheck THEN [handleCatch(api) EXCEPT !.func = ending]
            ELSE [api EXCEPT !.pc = "rejected", !.func = ending]
  /\ UNCHANGED <<pdrVars, sel, memo, q, rt, th, ls, ev>>

\* a request, the Users table and the context handle() is called with
ApiInit ==
  /\ PdrQuiet
  /\ SelQuiet
  /\ memo = [pc |-> "off"]
  /\ q = [pc |-> "off"]
  /\ rt = [pc |-> "off"]
  /\ th = [pc |-> "off"]
  /\ ls = [pc |-> "off"]
  /\ ev = [pc |-> "off"]
  /\ \E request \in Requests, users \in SUBSET UserNames, authCheck \in BOOLEAN,
        hasSucceed \in BOOLEAN, userModel \in UserModels :
       api = [pc |-> "new", request |-> request, users |-> users,
              authCheck |-> authCheck, hasSucceed |-> hasSucceed,
              userModel |-> userModel, userName |-> "", lookup |-> Pending,
              check |-> Pending, func |-> "none", invoked |-> 0, succeeded |-> <<>>]

ApiNext ==
  \/ HandleCall
  \/ \E fail \in LookupErrors \cup {"none"} : LookupDone(fail)
  \/ CheckSettled
  \/ \E ending \in FuncEndings : FuncDone(ending)

ApiSpec == ApiInit /\ [][ApiNext]_vars

\* the first request of the call is answered
ListCall ==
  /\ ls.pc = "called"
  /\ ls' = IF ls.fnName = "listS3ObjectsV2" THEN listS3ObjectsV2Call(ls)
           ELSE DynamoDbScanCall(ls)
  /\ UNCHANGED <<pdrVars, sel, memo, q, rt, th, api, ev>>

\* the last response was not the last page: the next request is answered
ListMore ==
  /\ ls.pc = "looping"
  /\ moreToFetch(ls)
  /\ ls' = IF ls.fnName = "listS3ObjectsV2" THEN listS3ObjectsV2More(ls)
           ELSE DynamoDbScanMore(ls)
  /\ UNCHANGED <<pdrVars, sel, memo, q, rt, th, api, ev>>

\* a request fails and the call rejects with its error
RequestFail(e) ==
  /\ ls.pc = "called" \/ (ls.pc = "looping" /\ moreToFetch(ls))
  /\ ls' = [ls EXCEPT !.pc = "rejected", !.err = [code |-> e], !.requests = @ + 1]
  /\ UNCHANGED <<pdrVars, sel, memo, q, rt, th, api, ev>>

\* the last response was the last page: the call returns what it collected
ListReturn ==
  /\ ls.pc = "looping"
  /\ ~moreToFetch(ls)
  /\ ls' = [ls EXCEPT !.pc = "returned"]
  /\ UNCHANGED <<pdrVars, sel, memo, q, rt, th, api, ev>>

\* listS3ObjectsV2(params) over a listing, or DynamoDb.scan({ limit }) over a table
ListInit ==
  /\ PdrQuiet
  /\ SelQuiet
  /\ memo = [pc |-> "off"]
  /\ q = [pc |-> "off"]
  /\ rt = [pc |-> "off"]
  /\ th = [pc |-> "off"]
  /\ api = [pc |-> "off"]
  /\ ev = [pc |-> "off"]
  /\ \/ \E pages \in Backends :
          ls = [pc |-> "called", fnName |-> "listS3ObjectsV2", pages |-> pages,
                params |-> [Bucket |-> Bucket], response |-> NoResponse,
                discoveredObjects |-> <<>>, requests |-> 0, err |-> NoError]
     \/ \E n \in 0..MaxItems, limit \in 1..MaxLimit :
          ls = [pc |-> "called", fnName |-> "DynamoDb.scan",
                pages |-> TablePages(n, limit),
                params |-> [TableName |-> "t", Limit |-> limit], response |-> NoResponse,
                discoveredObjects |-> <<>>, requests |-> 0, err |-> NoError]

ListNext ==
  \/ ListCall
  \/ ListMore
  \/ \E e \in RequestErrors : RequestFail(e)
  \/ ListReturn


\* the handler is called with the event: every callback runs to its first await
HandlerCall ==
  /\ ev.pc = "new"
  /\ LET msgs == [i \in DOMAIN ev.Records |-> messageStart(ev.Records[i])] IN
       ev' = [ev EXCEPT !.pc = "running", !.msgs = msgs,
                        !.handler = handlerPromise("pending", msgs)]
  /\ UNCHANGED <<pdrVars, sel, memo, q, rt, th, ls, api>>

\* getCumulusMessageFromExecutionEvent settles for message i
CumulusMessageDone(i, failed) ==
  /\ ev.pc = "running"
  /\ i \in DOMAIN ev.msgs
  /\ ev.msgs[i].stage = "getting"
  /\ LET msgs == [ev.msgs EXCEPT ![i] = IF failed THEN [@ EXCEPT !.stage = "rejected"]
                                        ELSE messageObtained(@)] IN
       ev' = [ev EXCEPT !.msgs = msgs, !.handler = handlerPromise(@, msgs)]
  /\ UNCHANGED <<pdrVars, sel, memo, q, rt, th, ls, api>>

\* write w of message i settles
WriteDone(i, w, failed) ==
  /\ ev.pc = "running"
  /\ i \in DOMAIN ev.msgs
  /\ ev.msgs[i].write[w] = "pending"
  /\ LET msgs == [ev.msgs EXCEPT ![i] = messageWritten(@, w, failed)] IN
       ev' = [ev EXCEPT !.msgs = msgs, !.handler = handlerPromise(@, msgs)]
  /\ UNCHANGED <<pdrVars, sel, memo, q, rt, th, ls, api>>

\* an event with its SQS messages
EventInit ==
  /\ PdrQuiet
  /\ SelQuiet
  /\ memo = [pc |-> "off"]
  /\ q = [pc |-> "off"]
  /\ rt = [pc |-> "off"]
  /\ th = [pc |-> "off"]
  /\ ls = [pc |-> "off"]
  /\ api = [pc |-> "off"]
  /\ \E n \in 0..MaxMessages : \E records \in [1..n -> SqsMessages] :
       ev = [pc |-> "new", Records |-> records, msgs |-> <<>>, handler |-> "pending"]

EventNext ==
  \/ HandlerCall
  \/ \E i \in 1..MaxMessages, failed \in BOOLEAN : CumulusMessageDone(i, failed)
  \/ \E i \in 1..MaxMessages, w \in Writes, failed \in BOOLEAN : WriteDone(i, w, failed)

EventSpec == EventInit /\ [][EventNext]_vars

ListSpec == ListInit /\ [][ListNext]_vars

\* every awaited request is answered and the continuation of the call runs
ListFairSpec == ListInit /\ [][ListNext]_vars /\ WF_vars(ListNext)

\* the selector and the constructors, over every input of the exercise
SelInit ==
  /\ provider = [id |-> "p", globalConnectionLimit |-> 1, protocol |-> "http",
                 host |-> "h", port |-> 80]
  /\ s3 = {}
  /\ folder = [d \in Discs |-> DefaultFolder]
  /\ dpc = [d \in Discs |-> "idle"]
  /\ pdrs = [d \in Discs |-> <<>>]
  /\ chk = [d \in Discs |-> <<>>]
  /\ seen = [d \in Discs |-> <<>>]
  /\ outcome = [d \in Discs |-> NoOutcome]
  /\ handed = [d \in Discs |-> 0]
  /\ passes = 0
  /\ runs = <<>>
  /\ open = 0
  /\ after = [d \in Discs |-> {}]
  /\ disk = {}
  /\ remote = RemoteFiles
  /\ AwsQuiet
  /\ sel \in [pc : {"start"}, type : SelTypes, protocol : SelProtocols,
               args : SelArgs, via : {"none"}, ctor : {NoResult}, result : {NoResult},
               client : {NoClient}, news : {0}]

SelNext ==
  \/ Select
  \/ Construct
  \/ \E cls \in DOMAIN Classes : ConstructDirect(cls)
  \/ Use

SelSpec == SelInit /\ [][SelNext]_vars

(* ============================== properties ============================= *)
Names(seq) == {seq[k].name : k \in DOMAIN seq}
Key(stack, fld, name) == <<stack, fld, name>>
RunKey(r) == <<runs[r].bucket, Key(runs[r].stack, runs[r].folder, runs[r].pdr.name)>>
Failed(r) == runs[r].pc \in {"DOWNLOAD_FAILED", "PARSE_FAILED", "UPLOAD_FAILED"}
Final(r) == Failed(r) \/ runs[r].pc = "PARSED_AND_ARCHIVED"
ReachedParsing(r) == runs[r].local # NoFile

\* C1: a record admitted to ingest is never admitted a second time for the
\* same (stack, bucket, folder): no two ingest runs are about the same record
C1_AtMostOnce ==
  \A i, j \in DOMAIN runs : i # j => RunKey(i) # RunKey(j)

\* C2: a candidate whose key {stack}/{folder}/{name} was in the bucket when its
\* check was answered is not in the result of discover(); the result is the
\* set of candidates seen absent, so two passes that saw the same storage
\* return the same set
C2_DedupIdempotent ==
  /\ \A d \in Discs : dpc[d] = "resolved" =>
       /\ \A i \in DOMAIN pdrs[d] :
            seen[d][i] => pdrs[d][i].name \notin Names(outcome[d].value)
       /\ Names(outcome[d].value) =
            {pdrs[d][i].name : i \in {k \in DOMAIN pdrs[d] : ~seen[d][k]}}
  /\ \A d1, d2 \in Discs :
       (/\ dpc[d1] = "resolved" /\ dpc[d2] = "resolved"
        /\ folder[d1] = folder[d2]
        /\ seen[d1] = seen[d2])
       => Names(outcome[d1].value) = Names(outcome[d2].value)

\* two passes with the same folder have resolved after seeing the same
\* storage, in which a listed record was already present
C2_Witness ==
  /\ dpc["d1"] = "resolved" /\ dpc["d2"] = "resolved"
  /\ folder["d1"] = folder["d2"]
  /\ seen["d1"] = seen["d2"]
  /\ \E i \in DOMAIN pdrs["d1"] : seen["d1"][i]
  /\ Names(outcome["d1"].value) = {"b.PDR"}

C4_FailedNotMarked ==
  \A r \in DOMAIN runs : Failed(r) => RunKey(r) \notin s3

\* C5: within one ingest() download completes before parse starts and parse
\* completes successfully before upload starts; upload is never started
\* before or together with download or parse
C5_StepOrder ==
  /\ [](\A r \in DOMAIN runs :
          /\ runs[r].pc \in {"DISCOVERED", "DOWNLOADING"} =>
               runs[r].local = NoFile /\ runs[r].granules = NoGranules
          /\ runs[r].pc = "PARSING" =>
               runs[r].local # NoFile /\ runs[r].granules = NoGranules
          /\ runs[r].pc \in {"DISCOVERED", "DOWNLOADING", "PARSING"} =>
               runs[r].call = NoCall
          /\ runs[r].call # NoCall =>
               /\ runs[r].local.content = "ok"
               /\ runs[r].granules # NoGranules
               /\ runs[r].call.file = runs[r].local)
  /\ [][\A r \in DOMAIN runs :
          /\ (runs'[r].pc = "PARSING" /\ runs[r].pc # "PARSING") =>
               runs[r].pc = "DOWNLOADING"
          /\ (runs'[r].call # NoCall /\ runs[r].call = NoCall) =>
               runs[r].pc = "PARSING" /\ runs'[r].pc = "UPLOADING"]_vars

\* an ingest run has started its upload
C5_Witness ==
  \E r \in DOMAIN runs : runs[r].pc = "UPLOADING" /\ runs[r].call # NoCall

\* C6: after a successful ingest() the record is in the bucket under the key
\* {stack}/{folder}/{name}, and every pass of discover() with the same stack,
\* bucket and folder that begins later does not return the record
C6_ArchivedIsInvisible ==
  /\ \A r \in DOMAIN runs : runs[r].pc = "PARSED_AND_ARCHIVED" => RunKey(r) \in s3
  /\ \A d \in Discs : dpc[d] = "resolved" =>
       \A r \in after[d] :
         folder[d] = runs[r].folder => runs[r].pdr.name \notin Names(outcome[d].value)

\* a pass that began after the archive of a record of its folder has resolved
C6_Witness ==
  \E d \in Discs : /\ dpc[d] = "resolved"
                   /\ \E r \in after[d] : folder[d] = runs[r].folder
                   /\ outcome[d].value # <<>>

\* the class each supported pair stands for
ExpectedClass(type, protocol) ==
  [base |-> IF type = "discover" THEN "Discover" ELSE "Parse", mixin |-> protocol]

\* C7: selector returns, for each of the six supported pairs, the class of
\* that type and protocol; otherwise it throws when it is called, and no
\* client is constructed
C7_Selector ==
  sel.via = "selector" =>
    IF sel.type \in {"discover", "parse"} /\ sel.protocol \in {"http", "ftp", "sftp"}
      THEN /\ sel.ctor.st = "fulfilled"
           /\ Classes[sel.ctor.value] = ExpectedClass(sel.type, sel.protocol)
           /\ sel.pc \in {"constructed", "used"} => sel.client.class = sel.ctor.value
      ELSE /\ sel.pc = "threw"
           /\ sel.ctor.st = "rejected"
           /\ sel.ctor.err.kind = "Error"
           /\ sel.type \in {"discover", "parse"} =>
                sel.ctor.err.message = <<"Protocol", sel.protocol, "is not supported.">>
           /\ sel.news = 0
           /\ sel.client = NoClient

\* the class selected for (discover, sftp) has been constructed and used
C7_Witness ==
  /\ sel.via = "selector"
  /\ sel.pc = "used"
  /\ sel.type = "discover" /\ sel.protocol = "sftp"
  /\ sel.client.class = "SftpDiscover"

\* C8 as stated: an ingest() that reached PARSING ends in PARSED_AND_ARCHIVED
\* or in PARSE_FAILED and in no other final condition
C8_TwoFinalStates ==
  \A r \in DOMAIN runs :
    (Final(r) /\ ReachedParsing(r)) =>
      runs[r].pc \in {"PARSED_AND_ARCHIVED", "PARSE_FAILED"}

IngestEdges ==
  {<<"DISCOVERED", "DOWNLOADING">>, <<"DOWNLOADING", "PARSING">>,
   <<"DOWNLOADING", "DOWNLOAD_FAILED">>, <<"PARSING", "UPLOADING">>,
   <<"PARSING", "PARSE_FAILED">>, <<"UPLOADING", "PARSED_AND_ARCHIVED">>,
   <<"UPLOADING", "UPLOAD_FAILED">>}

\* C8 amended: an ingest() moves DISCOVERED -> DOWNLOADING -> PARSING ->
\* UPLOADING; one that reached PARSING ends in exactly one of
\* PARSED_AND_ARCHIVED (parsed, record in the bucket), PARSE_FAILED (no upload
\* called) or UPLOAD_FAILED (parsed, the upload failed with a storage error)
C8_ThreeFinalStates ==
  /\ [](\A r \in DOMAIN runs :
          (Final(r) /\ ReachedParsing(r)) =>
            /\ runs[r].pc \in {"PARSED_AND_ARCHIVED", "PARSE_FAILED", "UPLOAD_FAILED"}
            /\ runs[r].pc = "PARSED_AND_ARCHIVED" =>
                 /\ runs[r].err = NoError
                 /\ runs[r].granules # NoGranules
                 /\ RunKey(r) \in s3
            /\ runs[r].pc = "PARSE_FAILED" =>
                 runs[r].call = NoCall /\ runs[r].err.kind = "PDRParsingError"
            /\ runs[r].pc = "UPLOAD_FAILED" =>
                 /\ runs[r].granules # NoGranules
                 /\ runs[r].call # NoCall
                 /\ runs[r].err.kind = "StorageError")
  /\ [][\A r \in DOMAIN runs :
          runs'[r].pc # runs[r].pc => <<runs[r].pc, runs'[r].pc>> \in IngestEdges]_vars

\* an ingest run has parsed its record and failed in the upload
C8_Witness ==
  \E r \in DOMAIN runs : runs[r].pc = "UPLOAD_FAILED" /\ runs[r].local.content = "ok"

\* C9: when the existence check of one candidate fails, discover() does not
\* reject on it: it settles with an outcome for every candidate
C9_BatchNotAborted ==
  \A d \in Discs :
    (\E i \in DOMAIN chk[d] : chk[d][i].st = "rejected") =>
      /\ dpc[d] # "rejected"
      /\ dpc[d] = "resolved" => \A j \in DOMAIN chk[d] : chk[d][j].st # "pending"

InFlight(d) == Cardinality({i \in DOMAIN chk[d] : chk[d][i].st = "pending"})

\* C11: the existence checks of one discover() call run in a work pool of
\* fixed size: the checks in flight do not grow with the candidates, so a
\* listing with more candidates than the pool (here a pool of one) never has
\* all its checks in flight at once
C11_BoundedChecks ==
  \A d \in Discs :
    (dpc[d] = "checking" /\ Len(pdrs[d]) > 1) => InFlight(d) < Len(pdrs[d])

\* C12: a Discover or Parse client is never constructed for a provider that
\* has no host: the construction fails
C12_NoHostFails ==
  sel.pc \in {"constructed", "used"} => "host" \in DOMAIN sel.args.provider

\* C13: once ingest() has finished, the local copy it downloaded is no
\* longer on the disk
C13_LocalFileCleanedUp ==
  \A r \in DOMAIN runs :
    (Final(r) /\ runs[r].local # NoFile) => runs[r].local.path \notin disk

\* C14: the steps of discover() (list, suffix filter, existence checks) leave
\* the objects in storage and the files on the provider as they were; the
\* objects in storage change only when an ingest() completes
\* its upload, and then by the key of its record
C14_DiscoverOnlyReads ==
  /\ [][(\E d \in Discs : dpc'[d] # dpc[d] \/ chk'[d] # chk[d]) =>
          (s3' = s3 /\ remote' = remote)]_vars
  /\ [][s3' # s3 =>
          \E r \in DOMAIN runs :
            /\ runs[r].pc = "UPLOADING"
            /\ runs'[r].pc = "PARSED_AND_ARCHIVED"
            /\ s3' = s3 \cup {RunKey(r)}]_vars

\* a pass has listed and checked its candidates against an empty bucket
C14_Witness ==
  \E d \in Discs : /\ dpc[d] = "resolved"
                   /\ Len(outcome[d].value) = 2
                   /\ s3 = {}
                   /\ remote = RemoteFiles

\* a name that ends in .PDR, character by character
HasPdrSuffix(name) ==
  LET c == Chars(name)
      n == Len(c)
  IN n >= 4 /\ c[n - 3] = "." /\ c[n - 2] = "P" /\ c[n - 1] = "D" /\ c[n] = "R"

\* the listed entries discover() has to return: those with the suffix whose
\* key was not in the bucket when it was checked
ExpectedNew(d) ==
  {j \in DOMAIN remote :
     /\ HasPdrSuffix(remote[j].name)
     /\ \A i \in DOMAIN pdrs[d] : pdrs[d][i] = remote[j] => ~seen[d][i]}

\* C15: discover() returns exactly the listed entries whose name ends in
\* .PDR and whose dedup check reported new
C15_ExactlyNewPdrs ==
  \A d \in Discs : dpc[d] = "resolved" =>
    /\ {outcome[d].value[k] : k \in DOMAIN outcome[d].value}
         = {remote[j] : j \in ExpectedNew(d)}
    /\ Len(outcome[d].value) = Cardinality(ExpectedNew(d))

\* a pass has resolved with the one new PDR of a listing that also holds an
\* archived PDR and entries without the suffix
C15_Witness ==
  \E d \in Discs :
    /\ dpc[d] = "resolved"
    /\ outcome[d].value = <<remote[3]>>
    /\ <<Bucket, Key(Stack, folder[d], remote[1].name)>> \in s3
    /\ ~HasPdrSuffix(remote[2].name) /\ ~HasPdrSuffix(remote[4].name)
\* the malformed groups of the document a run downloaded
Malformed(r) == groupsOf(Document(runs[r].local.content).groups, "malformed", 1)
WellFormed(r) == groupsOf(Document(runs[r].local.content).groups, "good", 1)
Recoverable(r) ==
  /\ runs[r].local # NoFile
  /\ Document(runs[r].local.content).sound
  /\ Len(Malformed(r)) = 1

C17_OneInstancePerService ==
  memo.pc = "on" =>
    /\ \A svc \in Services : memo.created[svc] <= 1
    /\ \A i, j \in DOMAIN memo.log :
         memo.log[i].service = memo.log[j].service =>
           memo.log[i].value = memo.log[j].value

C17_Witness ==
  /\ memo.pc = "on"
  /\ \E i, j \in DOMAIN memo.log :
       /\ i < j
       /\ memo.log[i].service = "s3" /\ memo.log[j].service = "s3"
       /\ memo.log[i].options = [region |-> "us-east-1"]
       /\ memo.log[j].options = [region |-> "eu-west-1"]
       /\ memo.log[j].value.id = memo.log[i].value.id
       /\ memo.log[j].value.config.region = "us-east-1"


\* what the shift() calls so far returned, in order
RECURSIVE ShiftValues(_)
ShiftValues(ops) ==
  IF ops = <<>> THEN <<>>
  ELSE IF ops[Len(ops)].op = "shift"
    THEN Append(ShiftValues(SubSeq(ops, 1, Len(ops) - 1)), ops[Len(ops)].value)
    ELSE ShiftValues(SubSeq(ops, 1, Len(ops) - 1))

\* C18: when there are no more items in the queue, shift() and peek() return
\* null: once a call returned null every later call returns null, and no item
\* is returned by two shift() calls
C18_NullIsFinal ==
  q.pc = "on" =>
    /\ \A i, j \in DOMAIN q.ops :
         (i < j /\ q.ops[i].value = NullItem) => q.ops[j].value = NullItem
    /\ LET out == ShiftValues(q.ops) IN
         \A i, j \in DOMAIN out :
           (i < j /\ out[i] # NullItem /\ out[i] # Undefined) => out[i] # out[j]


\* what n shift() calls on a fresh queue over the same pages return
RECURSIVE shiftOnly(_, _, _)
shiftOnly(pages, qu, n) ==
  IF n = 0 THEN <<>>
  ELSE LET r == shift(pages, qu) IN <<r.value>> \o shiftOnly(pages, r.queue, n - 1)

\* the items of a sequence of returned values, without the undefined of an
\* empty buffer
RECURSIVE Defined(_)
Defined(vals) ==
  IF vals = <<>> THEN <<>>
  ELSE IF Head(vals) = Undefined THEN Defined(Tail(vals))
  ELSE <<Head(vals)>> \o Defined(Tail(vals))

IsPrefix(a, b) == Len(a) <= Len(b) /\ SubSeq(b, 1, Len(a)) = a

C20_RetryOnlyNoSuchKey ==
  rt.pc # "off" =>
    LET n == Len(rt.attempts)
        limit == IF rt.given = Undefined THEN 1 ELSE rt.given.retries + 1 IN
    /\ n <= limit
    /\ \A i \in 1..(n - 1) : rt.attempts[i] = "NoSuchKey"
    /\ rt.pc = "running" => (n < limit /\ \A i \in 1..n : rt.attempts[i] = "NoSuchKey")
    /\ rt.pc = "resolved" =>
         (n >= 1 /\ rt.attempts[n] = "ok" /\ rt.value = [Bucket |-> rt.Bucket, Key |-> rt.Key])
    /\ rt.pc = "rejected" =>
         /\ n >= 1
         /\ rt.attempts[n] # "ok"
         /\ rt.err = [code |-> rt.attempts[n]]
         /\ rt.attempts[n] = "NoSuchKey" => n = limit
    /\ (n >= 1 /\ rt.attempts[n] # "NoSuchKey") => rt.pc # "running"

C20_Witness ==
  /\ rt.pc = "resolved"
  /\ rt.given = [retries |-> 2]
  /\ rt.attempts = <<"NoSuchKey", "NoSuchKey", "ok">>


\* C21: a function wrapped by retryOnThrottlingException is invoked again only
\* after an attempt failed with a ThrottlingException; another error ends the
\* call with that error, a successful attempt ends the call with its result,
\* and the attempts never exceed the configured retries plus one
C21_RetryOnlyThrottling ==
  th.pc # "off" =>
    LET n == Len(th.attempts)
        limit == th.options.retries + 1 IN
    /\ n <= limit
    /\ \A i \in 1..(n - 1) : th.attempts[i] = "ThrottlingException"
    /\ th.pc = "running" =>
         (n < limit /\ \A i \in 1..n : th.attempts[i] = "ThrottlingException")
    /\ th.pc = "resolved" =>
         (n >= 1 /\ th.attempts[n] = "ok" /\ th.value = [args |-> th.args])
    /\ th.pc = "rejected" =>
         /\ n >= 1
         /\ th.attempts[n] # "ok"
         /\ th.err = [code |-> th.attempts[n]]
         /\ th.attempts[n] = "ThrottlingException" => n = limit
    /\ (n >= 1 /\ th.attempts[n] # "ThrottlingException") => th.pc # "running"

C21_Witness ==
  /\ th.pc = "rejected"
  /\ th.options = [retries |-> 3]
  /\ th.attempts = <<"ThrottlingException", "ThrottlingException", "ValidationException">>


\* what the request carries under its Authorization header, if anything
AuthParts(request) ==
  LET key == findCaseInsensitiveKey(request.headers, "Authorization") IN
  IF key = NoKey THEN <<>> ELSE trimSplit(request.headers[key])

\* C22: getAuthorizationFailureResponse returns null only when the request
\* has an Authorization header with scheme Bearer, a token that passes
\* verifyJwtToken and a user name found in the Users table; in every other
\* case, a failed user lookup included, it returns a failure response
C22_NullOnlyWhenAuthorized ==
  (api.pc # "off" /\ api.check.st = "fulfilled") =>
    LET parts == AuthParts(api.request)
        authorized ==
          /\ Len(parts) >= 2
          /\ parts[1] = "Bearer"
          /\ verifyJwtToken(parts[2]) = "ok"
          /\ api.lookup.st = "fulfilled"
          /\ jwtDecode(parts[2]).username \in api.users IN
    /\ api.check.value = NoFailure => authorized
    /\ ~authorized => api.check.value.type = "AuthorizationFailureResponse"


\* C30: with authCheck enabled, handle() invokes the endpoint function only
\* after the authorization check resolved to null; when the check resolves to
\* a failure response, context.succeed is called with that response and the
\* endpoint function is never invoked; when the check or the endpoint function
\* rejects, context.succeed is called with an InternalServerError response
C30_AuthBeforeEndpoint ==
  (api.pc # "off" /\ api.authCheck) =>
    /\ api.invoked <= 1
    /\ api.invoked = 1 => api.check = Fulfilled(NoFailure)
    /\ (api.check.st = "fulfilled" /\ api.check.value # NoFailure) =>
         /\ api.invoked = 0
         /\ api.pc = "done" => api.succeeded = <<api.check.value>>
         /\ api.pc \in {"checked", "done"}
    /\ (api.check.st = "rejected" /\ api.pc # "checked") =>
         (api.pc = "done" /\ api.invoked = 0 /\ api.succeeded = <<InternalServerError>>)
    /\ api.func = "rejects" =>
         (api.pc = "done" /\ api.succeeded = <<InternalServerError>>)
    /\ api.pc \notin {"rejected"}

C30_Witness ==
  /\ api.authCheck
  /\ api.pc = "done"
  /\ api.check = Fulfilled(NoFailure)
  /\ api.lookup.st = "fulfilled"
  /\ api.invoked = 1
  /\ api.func = "rejects"
  /\ api.succeeded = <<InternalServerError>>


\* every item of every page, in page order
RECURSIVE AllItems(_)
AllItems(pages) ==
  IF pages = <<>> THEN <<>>
  ELSE AllItems(SubSeq(pages, 1, Len(pages) - 1)) \o pages[Len(pages)]

\* C23: listS3ObjectsV2 fetches the complete list: it returns the Contents of
\* every page in page order, each object once, after one request per page,
\* and over a listing of finitely many pages the call ends
C23_CompleteListing ==
  /\ [](ls.pc # "off" /\ ls.fnName = "listS3ObjectsV2" =>
          /\ ls.requests <= Len(ls.pages)
          /\ ls.pc = "returned" =>
               /\ ls.discoveredObjects = AllItems(ls.pages)
               /\ ls.requests = Len(ls.pages)
               /\ \A i, j \in DOMAIN ls.discoveredObjects :
                    i # j => ls.discoveredObjects[i] # ls.discoveredObjects[j])
  /\ (ls.pc = "called" /\ ls.fnName = "listS3ObjectsV2") ~>
       (ls.pc \in {"returned", "rejected"})

C23_Witness ==
  /\ ls.pc = "returned"
  /\ ls.fnName = "listS3ObjectsV2"
  /\ Len(ls.pages) = 2
  /\ Len(ls.pages[1]) = 2 /\ Len(ls.pages[2]) = 1
  /\ ls.discoveredObjects = <<[Key |-> 1], [Key |-> 2], [Key |-> 3]>>

Listed == {remote[j] : j \in DOMAIN remote}

\* C25: the dedup key depends only on bucket, stack, folder and record name:
\* after the successful ingest of a record delivered by another provider
\* into the same stack, bucket and folder, every later discover() leaves out
\* the record of that name that its own provider delivers
C25_SameNameOtherProvider ==
  \A d \in Discs : dpc[d] = "resolved" =>
    \A r \in after[d] :
      (/\ runs[r].pdr \notin Listed
       /\ runs[r].bucket = Bucket /\ runs[r].stack = Stack
       /\ runs[r].folder = folder[d]) =>
        /\ runs[r].pdr.name \notin Names(outcome[d].value)
        /\ \A e \in Listed :
             e.name = runs[r].pdr.name =>
               <<Bucket, pdrKey(Stack, folder[d], e)>> = RunKey(r)

C25_Witness ==
  \E d \in Discs :
    /\ dpc[d] = "resolved"
    /\ 1 \in after[d]
    /\ runs[1].pdr = OtherRecord
    /\ \E e \in Listed : e.name = OtherRecord.name /\ e.path # OtherRecord.path
    /\ Names(outcome[d].value) = {"b.PDR"}


\* C26: constructing the abstract classes Discover or Parse directly fails
\* with a TypeError and sets no field, while constructing any of the six
\* protocol variants passes the guard and gives a client of that class
C26_AbstractGuard ==
  (sel.pc # "off" /\ sel.via \in DOMAIN Classes) =>
    IF sel.via \in {"Discover", "Parse"}
      THEN /\ sel.pc = "failed"
           /\ sel.result.st = "rejected"
           /\ sel.result.err.kind = "TypeError"
           /\ sel.client = NoClient
      ELSE /\ sel.pc \in {"constructed", "used"}
           /\ sel.result.st = "fulfilled"
           /\ sel.client.class = sel.via
           /\ Classes[sel.via].mixin \in {"ftp", "http", "sftp"}

C26_Witness ==
  /\ sel.via = "Parse"
  /\ sel.pc = "failed"
  /\ sel.result.err.message = <<"Can not construct abstract class.">>


\* C27: for every SQS message whose Cumulus message was obtained the handler
\* attempts all three writes; a failed write is caught and logged, the other
\* two writes go on, and the handler does not reject because of it
C27_WritesIndependent ==
  ev.pc = "running" =>
    /\ \A i \in DOMAIN ev.msgs :
         LET m == ev.msgs[i] IN
         /\ m.obtained =>
              /\ \A w \in Writes : m.write[w] # "none"
              /\ \A w \in Writes : m.write[w] = "failed" <=> w \in m.logged
              /\ m.stage # "rejected"
              /\ m.stage = "fulfilled" <=>
                   \A w \in Writes : m.write[w] \in {"stored", "failed"}
         /\ ~m.obtained => \A w \in Writes : m.write[w] = "none"
    /\ ev.handler = "rejected" =>
         \E i \in DOMAIN ev.msgs : ~ev.msgs[i].obtained /\ ev.msgs[i].stage = "rejected"
    /\ (\A i \in DOMAIN ev.msgs : ev.msgs[i].stage = "fulfilled") => ev.handler = "fulfilled"

C27_Witness ==
  /\ ev.pc = "running"
  /\ ev.handler = "fulfilled"
  /\ Len(ev.msgs) = 2
  /\ ev.msgs[1].write = [execution |-> "stored", granules |-> "failed", pdr |-> "stored"]
  /\ ev.msgs[2].write = [execution |-> "failed", granules |-> "failed", pdr |-> "failed"]


\* the values up to and with the first null
RECURSIVE UpToNull(_)
UpToNull(vals) ==
  IF vals = <<>> THEN <<>>
  ELSE IF Head(vals) = NullItem THEN <<NullItem>>
  ELSE <<Head(vals)>> \o UpToNull(Tail(vals))

\* C28: repeated shift() on a DynamoDbSearchQueue returns every item of every
\* result page once, in page order, and then null: an empty page that has a
\* LastEvaluatedKey is skipped, so no call returns undefined and null is not
\* returned while a later page still holds items
C28_EmptyPagesSkipped ==
  (q.pc = "on" /\ q.queue.kind = "DynamoDbSearchQueue") =>
    LET out == ShiftValues(q.ops) IN
    /\ \A i \in DOMAIN q.ops : q.ops[i].value # Undefined
    /\ IsPrefix(UpToNull(out), AllItems(q.pages) \o <<NullItem>>)
    /\ \A i \in DOMAIN q.ops :
         LET before == ShiftValues(SubSeq(q.ops, 1, i - 1)) IN
         (q.ops[i].value = NullItem /\ \A j \in DOMAIN before : before[j] # NullItem) =>
           before = AllItems(q.pages)

C28_Witness ==
  /\ q.pc = "on"
  /\ q.queue.kind = "DynamoDbSearchQueue"
  /\ Len(q.pages) = 2
  /\ q.pages[1] = <<>>
  /\ ShiftValues(q.ops) = <<[Key |-> 1], [Key |-> 2], NullItem>>
  /\ Len(q.ops) = 3


\* C29: the records discover() returns stand in the order of the provider
\* listing, whichever existence check was answered first
C29_ListingOrder ==
  \A d \in Discs : dpc[d] = "resolved" =>
    LET v == outcome[d].value IN
    \A k, l \in DOMAIN v : k < l =>
      \E i, j \in DOMAIN list(remote) :
        i < j /\ list(remote)[i] = v[k] /\ list(remote)[j] = v[l]

\* a pass has resolved with both PDRs of the listing, each found new by a
\* check of its own
C29_Witness ==
  \E d \in Discs :
    /\ dpc[d] = "resolved"
    /\ Len(chk[d]) = 2
    /\ \A i \in DOMAIN chk[d] : chk[d][i].st = "fulfilled" /\ ~seen[d][i]
    /\ outcome[d].value = <<remote[1], remote[3]>>

====
